---- MODULE Spec2Model ----
(***************************************************************************)
(* A model of the TUI Framework installer                                  *)
(* (python-installer/tui_framework_installer/cli.py).                      *)
(*                                                                         *)
(* The installer is a straight line of shell-outs.  The model keeps the    *)
(* host it runs on (OS identifier, PATH, CPU count, the version that       *)
(* pkg-config reports, the directories of the build workspace), the        *)
(* command-line flags, the control position of main / build_notcurses,     *)
(* and the observable trace: every run_command invocation with its         *)
(* outcome, every stage main invoked, and the status lines printed.        *)
(*                                                                         *)
(* Texts are sequences of characters / words, so that the substring test   *)
(* of line 199 and the strip() of line 243 are computed, not assumed.      *)
(***************************************************************************)
EXTENDS Integers, Sequences, FiniteSets, TLC

VARIABLES
    system,          \* platform.system() of the host, e.g. "Linux"
    path,            \* executables that shutil.which resolves
    cpu_count,       \* os.cpu_count(); 0 stands for None
    skip_deps,       \* --skip-deps
    skip_build,      \* --skip-build
    test,            \* --test
    pkgconfig,       \* version pkg-config reports for notcurses, <<>> if none
    fs,              \* directories that currently exist
    created,         \* number of TemporaryDirectory objects created
    pc,              \* control position
    platform_name,   \* main's local (also install_dependencies' argument)
    package_manager, \* main's local (also install_dependencies' argument)
    probed,          \* check_command_exists calls made, in order
    log,             \* run_command invocations with their results, in order
    stages,          \* stages invoked by main, in order
    depsResult,      \* (success, message) returned by install_dependencies
    buildResult,     \* (success, message) returned by build_notcurses
    printed,         \* console status lines
    raised,          \* an exception propagated out of the running call
    exit_code        \* process exit status, Running while it runs

vars == <<system, path, cpu_count, skip_deps, skip_build, test, pkgconfig, fs,
          created, pc, platform_name, package_manager, probed, log, stages,
          depsResult, buildResult, printed, raised, exit_code>>

-----------------------------------------------------------------------------
(* Bounds and constants *)

\* Longest standard-error text a failing command leaves (texts "", "x", "xx", ...).
MaxErr == 2

\* Fallback parallelism of the compile step (os.cpu_count() or 4).
DefaultJobs == 4

\* A status no process reports: the process has not ended.
Running == 0 - 1
None == "None"

-----------------------------------------------------------------------------
(* Texts *)

ErrText(n) == [k \in 1..n |-> "x"]

ErrTexts == {ErrText(n) : n \in 0..MaxErr}

Pinned == <<"3", ".", "0", ".", "1", "1">>

OlderVersion == <<"3", ".", "0", ".", "1", "0">>

LookalikeVersion == <<"3", ".", "0", ".", "1", "1", "0">>

\* What pkg-config can report as the installed notcurses version.
Versions == {Pinned, OlderVersion, LookalikeVersion}

Whitespace == {" ", "\n", "\t", "\r"}

\* Python's `sub in s` on texts.
Contains(sub, s) ==
    \E i \in 0..(Len(s) - Len(sub)) : SubSeq(s, i + 1, i + Len(sub)) = sub

RECURSIVE LStrip(_)
LStrip(s) ==
    IF s # <<>> /\ Head(s) \in Whitespace THEN LStrip(Tail(s)) ELSE s

RECURSIVE RStrip(_)
RStrip(s) ==
    IF s # <<>> /\ s[Len(s)] \in Whitespace
    THEN RStrip(SubSeq(s, 1, Len(s) - 1)) ELSE s

\* Python's str.strip().
Strip(s) == RStrip(LStrip(s))

\* Python's str.lower() on the OS identifiers the host can report.
Lower(s) ==
    CASE s = "Linux"   -> "linux"
      [] s = "Darwin"  -> "darwin"
      [] s = "Windows" -> "windows"
      [] s = "FreeBSD" -> "freebsd"
      [] OTHER         -> s

-----------------------------------------------------------------------------
(* The host *)

Systems == {"Linux", "Darwin", "Windows", "FreeBSD"}

Executables == {"apt-get", "dnf", "pacman", "vcpkg"}

\* os.cpu_count(): None (0) or a count.
CpuCounts == {0, 8}

\* Directories of the build workspace: temp_dir, temp_dir/notcurses and
\* temp_dir/notcurses/build.
Workspace == {"temp_dir", "notcurses", "build"}

\* Exit status and output of an external process.
Outcomes ==
    {[returncode |-> 0, stdout |-> <<>>, stderr |-> <<>>]} \cup
    {[returncode |-> 1, stdout |-> <<>>, stderr |-> e] : e \in ErrTexts}

\* `pkg-config --modversion notcurses` on a host whose metadata holds pk.
QueryOutcome(pk) ==
    IF pk = <<>>
    THEN [returncode |-> 1, stdout |-> <<>>, stderr |-> ErrText(1)]
    ELSE [returncode |-> 0, stdout |-> pk \o <<"\n">>, stderr |-> <<>>]

-----------------------------------------------------------------------------
(* run_command *)

Cmd(name, text, arg) == [name |-> name, text |-> text, arg |-> arg]

\* run_command(cmd, cwd, check) on a host with directories f, where the
\* process, if it starts, ends with out.  subprocess.run raises
\* FileNotFoundError when cwd cannot be entered; only CalledProcessError is
\* caught.  The result is the invocation together with what it returned.
run_command(cmd, cwd, check, f, out) ==
    IF cwd # None /\ cwd \notin f
    THEN [cmd |-> cmd, cwd |-> cwd, check |-> check, raised |-> TRUE,
          returncode |-> Running, success |-> FALSE,
          stdout |-> <<>>, stderr |-> <<>>]
    ELSE IF check /\ out.returncode # 0
         THEN [cmd |-> cmd, cwd |-> cwd, check |-> check, raised |-> FALSE,
               returncode |-> out.returncode, success |-> FALSE,
               stdout |-> out.stdout, stderr |-> out.stderr]
         ELSE [cmd |-> cmd, cwd |-> cwd, check |-> check, raised |-> FALSE,
               returncode |-> out.returncode,
               success |-> (out.returncode = 0),
               stdout |-> out.stdout, stderr |-> out.stderr]

-----------------------------------------------------------------------------
(* detect_platform *)

check_command_exists(cmd, p) == cmd \in p

Detected(platform, manager, probes) ==
    [platform |-> platform, manager |-> manager, probes |-> probes]

\* detect_platform with the Linux probes for dnf and apt-get exchanged.
detect_platform_dnf_first(sys, p) ==
    IF sys = "linux"
    THEN IF check_command_exists("dnf", p)
         THEN Detected("fedora", "dnf", <<"dnf">>)
         ELSE IF check_command_exists("apt-get", p)
         THEN Detected("ubuntu", "apt", <<"dnf", "apt-get">>)
         ELSE IF check_command_exists("pacman", p)
         THEN Detected("arch", "pacman", <<"dnf", "apt-get", "pacman">>)
         ELSE Detected("linux", "unknown", <<"dnf", "apt-get", "pacman">>)
    ELSE IF sys = "darwin"
    THEN Detected("macos", "brew", <<>>)
    ELSE IF sys = "windows"
    THEN IF check_command_exists("pacman", p)
         THEN Detected("windows", "msys2", <<"pacman">>)
         ELSE IF check_command_exists("vcpkg", p)
         THEN Detected("windows", "vcpkg", <<"pacman", "vcpkg">>)
         ELSE Detected("windows", "unknown", <<"pacman", "vcpkg">>)
    ELSE Detected("unknown", "unknown", <<>>)

\* detect_platform() for OS identifier sys (already lower-cased) and PATH p.
detect_platform(sys, p) ==
    IF sys = "linux"
    THEN IF check_command_exists("apt-get", p)
         THEN Detected("ubuntu", "apt", <<"apt-get">>)
         ELSE IF check_command_exists("dnf", p)
         THEN Detected("fedora", "dnf", <<"apt-get", "dnf">>)
         ELSE IF check_command_exists("pacman", p)
         THEN Detected("arch", "pacman", <<"apt-get", "dnf", "pacman">>)
         ELSE Detected("linux", "unknown", <<"apt-get", "dnf", "pacman">>)
    ELSE IF sys = "darwin"
    THEN Detected("macos", "brew", <<>>)
    ELSE IF sys = "windows"
    THEN IF check_command_exists("pacman", p)
         THEN Detected("windows", "msys2", <<"pacman">>)
         ELSE IF check_command_exists("vcpkg", p)
         THEN Detected("windows", "vcpkg", <<"pacman", "vcpkg">>)
         ELSE Detected("windows", "unknown", <<"pacman", "vcpkg">>)
    ELSE Detected("unknown", "unknown", <<>>)

-----------------------------------------------------------------------------
(* install_dependencies *)

DepsKeys == {"ubuntu", "fedora", "arch", "macos", "msys2"}

deps(p) ==
    CASE p = "ubuntu" -> <<"build-essential", "cmake", "pkg-config",
                           "libncurses-dev", "libunistring-dev",
                           "libavformat-dev", "libavutil-dev",
                           "libswscale-dev", "libqrcodegen-dev", "git">>
      [] p = "fedora" -> <<"gcc-c++", "cmake", "pkgconfig",
                           "ncurses-devel", "libunistring-devel",
                           "ffmpeg-devel", "qrencode-devel", "git">>
      [] p = "arch"   -> <<"notcurses">>
      [] p = "macos"  -> <<"notcurses">>
      [] p = "msys2"  -> <<"mingw-w64-x86_64-gcc", "mingw-w64-x86_64-cmake",
                           "mingw-w64-x86_64-pkg-config",
                           "mingw-w64-x86_64-ncurses",
                           "mingw-w64-x86_64-ffmpeg", "git">>

CommandKeys == {"apt", "dnf", "pacman", "brew"}

commands(m, p) ==
    CASE m = "apt"    -> "sudo apt-get update && sudo apt-get install -y"
      [] m = "dnf"    -> "sudo dnf install -y"
      [] m = "pacman" -> IF p = "msys2"
                         THEN "sudo pacman -S --needed --noconfirm"
                         ELSE "yay -S"
      [] m = "brew"   -> "brew install"

Returned(success, message, calls, out) ==
    [success |-> success, message |-> message, calls |-> calls, printed |-> out]

\* install_dependencies looking up the package manager before the platform.
install_dependencies_manager_first(p, m, f, out) ==
    IF m \notin CommandKeys
    THEN Returned(FALSE, <<"Unsupported package manager: ", m>>, <<>>, <<>>)
    ELSE IF p \notin DepsKeys
    THEN Returned(FALSE, <<"Unsupported platform: ", p>>, <<>>, <<>>)
    ELSE LET r == run_command(Cmd("deps", commands(m, p), deps(p)),
                              None, TRUE, f, out)
             line == <<<<"Installing dependencies: ">> \o deps(p)>>
         IN  IF ~r.success
             THEN Returned(FALSE,
                           <<"Failed to install dependencies: ">> \o r.stderr,
                           <<r>>, line)
             ELSE Returned(TRUE, <<"Dependencies installed successfully">>,
                           <<r>>, line)

\* install_dependencies(p, m): what it returns, the commands it ran and
\* the lines it printed, when the package-manager process ends with out.
install_dependencies(p, m, f, out) ==
    IF p \notin DepsKeys
    THEN Returned(FALSE, <<"Unsupported platform: ", p>>, <<>>, <<>>)
    ELSE IF m \notin CommandKeys
    THEN Returned(FALSE, <<"Unsupported package manager: ", m>>, <<>>, <<>>)
    ELSE LET r == run_command(Cmd("deps", commands(m, p), deps(p)),
                              None, TRUE, f, out)
             line == <<<<"Installing dependencies: ">> \o deps(p)>>
         IN  IF ~r.success
             THEN Returned(FALSE,
                           <<"Failed to install dependencies: ">> \o r.stderr,
                           <<r>>, line)
             ELSE Returned(TRUE, <<"Dependencies installed successfully">>,
                           <<r>>, line)

\* What pkg-config reports after the package-manager command of
\* install_dependencies: a package list that names notcurses itself
\* installs whatever version the repository carries.
PkgConfigAfterDeps(pk, d, p) ==
    IF d.success /\ \E i \in 1..Len(deps(p)) : deps(p)[i] = "notcurses"
    THEN Versions
    ELSE {pk}

-----------------------------------------------------------------------------
(* build_notcurses *)

CloneCmd == Cmd("clone", "git clone https://github.com/dankamongmen/notcurses.git", <<>>)

PinCmd == Cmd("pin", "git checkout v3.0.11", <<>>)

ConfigureCmd == Cmd("configure", "cmake .. -DCMAKE_BUILD_TYPE=Release", <<>>)

\* os.cpu_count() or 4
Jobs(n) == IF n = 0 THEN DefaultJobs ELSE n

CompileCmd(n) == Cmd("compile", "make -j", <<Jobs(n)>>)

InstallCmd == Cmd("install", "sudo make install", <<>>)

RefreshCmd == Cmd("refresh", "sudo ldconfig", <<>>)

\* A workspace made with mkdtemp and never removed.
TemporaryDirectoryLeft(f) == f

\* Leaving the `with tempfile.TemporaryDirectory()` block, by return or by
\* exception, removes the directory and everything below it.
TemporaryDirectoryExit(f) == f \ Workspace

\* A step whose result is not looked at.
AfterStepUnchecked(success, next) == next

\* Where build_notcurses goes after a step: on to `next`, or out.
AfterStep(success, next) == IF success THEN next ELSE "b_ret"

\* One gated step of build_notcurses at position `at`: run cmd in cwd (after
\* creating the directories `mk`); on failure return (False, prefix + stderr),
\* on success go to `next` with the directories `made` in place.
BuildStep(at, cmd, mk, cwd, prefix, next, made) ==
    /\ pc = at
    /\ \E out \in Outcomes :
         LET r  == run_command(cmd, cwd, TRUE, fs \cup mk, out)
             to == AfterStep(r.success, next)
         IN  /\ log' = Append(log, r)
             /\ IF r.raised
                THEN /\ raised' = TRUE
                     /\ fs' = TemporaryDirectoryExit(fs \cup mk)
                     /\ exit_code' = 1
                     /\ pc' = "done"
                     /\ UNCHANGED buildResult
                ELSE /\ pc' = to
                     /\ IF to = "b_ret"
                        THEN /\ buildResult' =
                                  [success |-> FALSE,
                                   message |-> <<prefix>> \o r.stderr]
                             /\ fs' = TemporaryDirectoryExit(fs \cup mk)
                        ELSE /\ UNCHANGED buildResult
                             /\ fs' = IF r.success
                                      THEN fs \cup mk \cup made
                                      ELSE fs \cup mk
                     /\ UNCHANGED <<raised, exit_code>>

\* line 116-117: the workspace is created on entry.
Stage ==
    /\ pc = "b_stage"
    /\ fs' = fs \cup {"temp_dir"}
    /\ created' = created + 1
    /\ printed' = Append(printed, <<"Downloading notcurses source...">>)
    /\ pc' = "b_clone"
    /\ UNCHANGED <<system, path, cpu_count, skip_deps, skip_build, test,
                   pkgconfig, platform_name, package_manager, probed, log,
                   stages, depsResult, buildResult, raised, exit_code>>

\* lines 119-125
Clone ==
    /\ BuildStep("b_clone", CloneCmd, {}, "temp_dir",
                 "Failed to clone notcurses: ", "b_pin", {"notcurses"})
    /\ UNCHANGED <<system, path, cpu_count, skip_deps, skip_build, test,
                   pkgconfig, created, platform_name, package_manager, probed,
                   stages, depsResult, printed>>

\* lines 127-135
Pin ==
    /\ BuildStep("b_pin", PinCmd, {}, "notcurses",
                 "Failed to checkout v3.0.11: ", "b_configure", {})
    /\ UNCHANGED <<system, path, cpu_count, skip_deps, skip_build, test,
                   pkgconfig, created, platform_name, package_manager, probed,
                   stages, depsResult, printed>>

\* lines 137-147: os.makedirs(build_dir) precedes the configure command.
Configure ==
    /\ BuildStep("b_configure", ConfigureCmd, {"build"}, "build",
                 "Failed to configure build: ", "b_compile", {})
    /\ printed' = Append(printed, <<"Configuring build...">>)
    /\ UNCHANGED <<system, path, cpu_count, skip_deps, skip_build, test,
                   pkgconfig, created, platform_name, package_manager, probed,
                   stages, depsResult>>

\* lines 149-156
Compile ==
    /\ BuildStep("b_compile", CompileCmd(cpu_count), {}, "build",
                 "Failed to build notcurses: ", "b_install", {})
    /\ printed' = Append(printed, <<"Building notcurses (this may take a few minutes)...">>)
    /\ UNCHANGED <<system, path, cpu_count, skip_deps, skip_build, test,
                   pkgconfig, created, platform_name, package_manager, probed,
                   stages, depsResult>>

\* What pkg-config reports after `sudo make install` of the pinned tag: the
\* new metadata, or the old answer when the install prefix is not on
\* pkg-config's search path.
PkgConfigAfterInstall(pk, success) ==
    IF success THEN {pk, Pinned} ELSE {pk}

\* lines 158-164
Install ==
    /\ BuildStep("b_install", InstallCmd, {}, "build",
                 "Failed to install notcurses: ", "b_refresh", {})
    /\ printed' = Append(printed, <<"Installing notcurses...">>)
    /\ pkgconfig' \in PkgConfigAfterInstall(pkgconfig, log'[Len(log')].success)
    /\ UNCHANGED <<system, path, cpu_count, skip_deps, skip_build, test,
                   created, platform_name, package_manager, probed,
                   stages, depsResult>>

\* line 167: the library cache is refreshed on Linux only.
NeedsRefresh(sys) == Lower(sys) = "linux"

\* lines 166-170: the result of ldconfig is not looked at.
Refresh ==
    /\ pc = "b_refresh"
    /\ IF NeedsRefresh(system)
       THEN \E out \in Outcomes :
               log' = Append(log, run_command(RefreshCmd, None, TRUE, fs, out))
       ELSE UNCHANGED log
    /\ buildResult' = [success |-> TRUE,
                       message |-> <<"notcurses 3.0.11 installed successfully">>]
    /\ fs' = TemporaryDirectoryExit(fs)
    /\ pc' = "b_ret"
    /\ UNCHANGED <<system, path, cpu_count, skip_deps, skip_build, test,
                   pkgconfig, created, platform_name, package_manager, probed,
                   stages, depsResult, printed, raised, exit_code>>

-----------------------------------------------------------------------------
(* main *)

QueryCmd == Cmd("query", "pkg-config --modversion notcurses", <<>>)

NoResult == [success |-> FALSE, message |-> <<>>]

\* line 189: an unknown platform is fatal.
AfterDetect(platform) == IF platform = "unknown" THEN "exit1" ELSE "check"

\* The version compared for equality with the raw output, newline included.
already_installed_exact(success, stdout) == success /\ stdout = Pinned

\* line 199
already_installed(success, stdout) == success /\ Contains(Pinned, stdout)

\* lines 199-202: return early when installed and --test is not given.
AfterCheck(already, t) == IF already /\ ~t THEN "exit0" ELSE "deps"

\* A failed dependency stage that is reported but not fatal.
AfterDepsNotFatal(success) == "build"

\* lines 215-219
AfterDeps(success) == IF success THEN "build" ELSE "exit1"

\* line 222
WantsBuild(skip, platform) == ~skip /\ platform \notin {"arch", "macos"}

\* lines 232-236
AfterBuild(success) == IF success THEN "test" ELSE "exit1"

\* lines 242-247
AfterTest(success) == IF success THEN "exit0" ELSE "exit1"

\* sys.exit(1), or main returning: the position and the exit status.
Goto(to) ==
    /\ pc' = IF to \in {"exit0", "exit1"} THEN "done" ELSE to
    /\ exit_code' = CASE to = "exit0" -> 0
                      [] to = "exit1" -> 1
                      [] OTHER        -> exit_code

Complete == <<"Installation Complete!">>

\* lines 186-195
MainDetect ==
    /\ pc = "main"
    /\ LET d == detect_platform(Lower(system), path)
       IN  /\ platform_name' = d.platform
           /\ package_manager' = d.manager
           /\ probed' = d.probes
           /\ printed' = printed
                  \o <<<<"Detected platform: ", d.platform, d.manager>>>>
                  \o (IF AfterDetect(d.platform) = "exit1"
                      THEN <<<<"ERROR: Unsupported platform detected">>>>
                      ELSE <<>>)
           /\ Goto(AfterDetect(d.platform))
    /\ UNCHANGED <<system, path, cpu_count, skip_deps, skip_build, test,
                   pkgconfig, fs, created, log, stages, depsResult,
                   buildResult, raised>>

\* lines 197-202
MainCheck ==
    /\ pc = "check"
    /\ LET r == run_command(QueryCmd, None, FALSE, fs, QueryOutcome(pkgconfig))
           already == already_installed(r.success, r.stdout)
       IN  /\ log' = Append(log, r)
           /\ printed' = IF already
                         THEN Append(printed, <<"SUCCESS: notcurses 3.0.11 already installed">>)
                         ELSE printed
           /\ Goto(AfterCheck(already, test))
    /\ UNCHANGED <<system, path, cpu_count, skip_deps, skip_build, test,
                   pkgconfig, fs, created, platform_name, package_manager,
                   probed, stages, depsResult, buildResult, raised>>

\* line 205 with --skip-deps
MainSkipDeps ==
    /\ pc = "deps"
    /\ skip_deps
    /\ pc' = "build"
    /\ UNCHANGED <<system, path, cpu_count, skip_deps, skip_build, test,
                   pkgconfig, fs, created, platform_name, package_manager,
                   probed, log, stages, depsResult, buildResult, printed,
                   raised, exit_code>>

\* lines 205-219
MainDeps ==
    /\ pc = "deps"
    /\ ~skip_deps
    /\ \E out \in Outcomes :
         LET d == install_dependencies(platform_name, package_manager, fs, out)
         IN  /\ stages' = Append(stages, "install_dependencies")
             /\ log' = log \o d.calls
             /\ depsResult' = [success |-> d.success, message |-> d.message]
             /\ printed' = printed \o d.printed
                    \o <<<<IF d.success THEN "SUCCESS: " ELSE "ERROR: ">>
                         \o d.message>>
             /\ pkgconfig' \in PkgConfigAfterDeps(pkgconfig, d, platform_name)
             /\ Goto(AfterDeps(d.success))
    /\ UNCHANGED <<system, path, cpu_count, skip_deps, skip_build, test,
                   fs, created, platform_name, package_manager, probed,
                   buildResult, raised>>

\* lines 221-229: build_notcurses is called, or the stage is passed over.
MainBuild ==
    /\ pc = "build"
    /\ IF WantsBuild(skip_build, platform_name)
       THEN /\ stages' = Append(stages, "build_notcurses")
            /\ pc' = "b_stage"
       ELSE /\ UNCHANGED stages
            /\ pc' = "test"
    /\ UNCHANGED <<system, path, cpu_count, skip_deps, skip_build, test,
                   pkgconfig, fs, created, platform_name, package_manager,
                   probed, log, depsResult, buildResult, printed, raised,
                   exit_code>>

\* lines 230-236
MainAfterBuild ==
    /\ pc = "b_ret"
    /\ printed' = Append(printed,
                         <<IF buildResult.success THEN "SUCCESS: " ELSE "ERROR: ">>
                         \o buildResult.message)
    /\ Goto(AfterBuild(buildResult.success))
    /\ UNCHANGED <<system, path, cpu_count, skip_deps, skip_build, test,
                   pkgconfig, fs, created, platform_name, package_manager,
                   probed, log, stages, depsResult, buildResult, raised>>

\* lines 238-247 and, when verification passes, 249-257
MainTest ==
    /\ pc = "test"
    /\ test
    /\ LET r == run_command(QueryCmd, None, FALSE, fs, QueryOutcome(pkgconfig))
           version == Strip(r.stdout)
       IN  /\ stages' = Append(stages, "verify")
           /\ log' = Append(log, r)
           /\ printed' = printed \o <<<<"Testing installation...">>>>
                  \o (IF r.success
                      THEN << <<"SUCCESS: notcurses ">> \o version \o <<" detected">>,
                              Complete >>
                      ELSE <<<<"ERROR: Installation verification failed">>>>)
           /\ Goto(AfterTest(r.success))
    /\ UNCHANGED <<system, path, cpu_count, skip_deps, skip_build, test,
                   pkgconfig, fs, created, platform_name, package_manager,
                   probed, depsResult, buildResult, raised>>

\* lines 239, 249-257 without --test
MainFinish ==
    /\ pc = "test"
    /\ ~test
    /\ printed' = Append(printed, Complete)
    /\ Goto("exit0")
    /\ UNCHANGED <<system, path, cpu_count, skip_deps, skip_build, test,
                   pkgconfig, fs, created, platform_name, package_manager,
                   probed, log, stages, depsResult, buildResult, raised>>

-----------------------------------------------------------------------------
(* The installer run: any host, any flags *)

Init ==
    /\ system \in Systems
    /\ path \in SUBSET Executables
    /\ cpu_count \in CpuCounts
    /\ skip_deps \in BOOLEAN
    /\ skip_build \in BOOLEAN
    /\ test \in BOOLEAN
    /\ pkgconfig \in Versions \cup {<<>>}
    /\ fs = {}
    /\ created = 0
    /\ pc = "main"
    /\ platform_name = None
    /\ package_manager = None
    /\ probed = <<>>
    /\ log = <<>>
    /\ stages = <<>>
    /\ depsResult = NoResult
    /\ buildResult = NoResult
    /\ printed = <<>>
    /\ raised = FALSE
    /\ exit_code = Running

Next ==
    \/ MainDetect
    \/ MainCheck
    \/ MainSkipDeps
    \/ MainDeps
    \/ MainBuild
    \/ Stage
    \/ Clone
    \/ Pin
    \/ Configure
    \/ Compile
    \/ Install
    \/ Refresh
    \/ MainAfterBuild
    \/ MainTest
    \/ MainFinish

Spec == Init /\ [][Next]_vars

-----------------------------------------------------------------------------
(* The functions called on their own: any arguments *)

PlatformArgs == DepsKeys \cup {"linux", "windows", "unknown", "solaris"}

ManagerArgs == CommandKeys \cup {"msys2", "vcpkg", "unknown"}

CwdArgs == {None, "existing_dir", "missing_dir"}

InitUnit ==
    /\ system = "Linux"
    /\ path = {}
    /\ cpu_count = 0
    /\ skip_deps = FALSE
    /\ skip_build = FALSE
    /\ test = FALSE
    /\ pkgconfig = <<>>
    /\ fs = {"existing_dir"}
    /\ created = 0
    /\ pc = "unit"
    /\ platform_name \in PlatformArgs
    /\ package_manager \in ManagerArgs
    /\ probed = <<>>
    /\ log = <<>>
    /\ stages = <<>>
    /\ depsResult = NoResult
    /\ buildResult = NoResult
    /\ printed = <<>>
    /\ raised = FALSE
    /\ exit_code = Running

\* install_dependencies(platform_name, package_manager), lines 67-112
CallInstallDependencies ==
    /\ pc = "unit"
    /\ \E out \in Outcomes :
         LET d == install_dependencies(platform_name, package_manager, fs, out)
         IN  /\ log' = log \o d.calls
             /\ depsResult' = [success |-> d.success, message |-> d.message]
             /\ printed' = printed \o d.printed
    /\ pc' = "unit_deps"
    /\ UNCHANGED <<system, path, cpu_count, skip_deps, skip_build, test,
                   pkgconfig, fs, created, platform_name, package_manager,
                   probed, stages, buildResult, raised, exit_code>>

\* run_command(cmd, cwd, check), lines 23-36
CallRunCommand ==
    /\ pc = "unit"
    /\ \E cmd \in {QueryCmd, CloneCmd}, cwd \in CwdArgs, check \in BOOLEAN,
          out \in Outcomes :
         LET r == run_command(cmd, cwd, check, fs, out)
         IN  /\ log' = Append(log, r)
             /\ raised' = r.raised
    /\ pc' = "unit_run"
    /\ UNCHANGED <<system, path, cpu_count, skip_deps, skip_build, test,
                   pkgconfig, fs, created, platform_name, package_manager,
                   probed, stages, depsResult, buildResult, printed,
                   exit_code>>

NextUnit ==
    \/ CallInstallDependencies
    \/ CallRunCommand

SpecUnit == InitUnit /\ [][NextUnit]_vars

-----------------------------------------------------------------------------
(* Properties *)

Range(q) == {q[i] : i \in 1..Len(q)}

BuildPcs == {"b_clone", "b_pin", "b_configure", "b_compile", "b_install",
             "b_refresh"}

StepOrder == <<"clone", "pin", "configure", "compile", "install", "refresh">>

IsBuildEntry(e) == e.cmd.name \in Range(StepOrder)

\* The build steps run so far, in order, with their results.
BuildLog == SelectSeq(log, IsBuildEntry)

BuildReturned == "build_notcurses" \in Range(stages) /\ pc \in {"b_ret", "test", "done"}

\* C1: once detect_platform has run, the pair it returned is the one the
\* priority rules give for the host's OS identifier and PATH (linux: apt-get,
\* then dnf, then pacman, else (linux, unknown); darwin: (macos, brew) with
\* no probe; windows: pacman -> msys2, then vcpkg, else unknown; any other
\* OS: (unknown, unknown)), the probes were made in that order and stopped
\* at the first hit, and the manager is unknown only if the platform is
\* unknown or none of the probed executables was found.
C1_DetectPlatform ==
    pc \notin {"main", "unit", "unit_deps", "unit_run"} =>
      LET sys  == Lower(system)
          pair == <<platform_name, package_manager>>
          LinuxOrder   == <<"apt-get", "dnf", "pacman">>
          WindowsOrder == <<"pacman", "vcpkg">>
          order == CASE sys = "linux"   -> LinuxOrder
                     [] sys = "windows" -> WindowsOrder
                     [] OTHER           -> <<>>
          hits  == {i \in 1..Len(order) : order[i] \in path}
          first == IF hits = {} THEN 0
                   ELSE CHOOSE i \in hits : \A j \in hits : i <= j
      IN  /\ sys = "linux" =>
                pair = CASE first = 1 -> <<"ubuntu", "apt">>
                         [] first = 2 -> <<"fedora", "dnf">>
                         [] first = 3 -> <<"arch", "pacman">>
                         [] OTHER     -> <<"linux", "unknown">>
          /\ sys = "darwin" => pair = <<"macos", "brew">>
          /\ sys = "windows" =>
                pair = CASE first = 1 -> <<"windows", "msys2">>
                         [] first = 2 -> <<"windows", "vcpkg">>
                         [] OTHER     -> <<"windows", "unknown">>
          /\ sys \notin {"linux", "darwin", "windows"} =>
                pair = <<"unknown", "unknown">>
          /\ probed = SubSeq(order, 1, IF first = 0 THEN Len(order) ELSE first)
          /\ package_manager = "unknown" =>
                \/ platform_name = "unknown"
                \/ \A i \in 1..Len(probed) : probed[i] \notin path

\* Linux with pacman (and vcpkg) but neither apt-get nor dnf: arch/pacman
\* after three probes.
C1_Witness ==
    /\ pc = "check"
    /\ system = "Linux"
    /\ path = {"pacman", "vcpkg"}
    /\ platform_name = "arch"
    /\ package_manager = "pacman"
    /\ Len(probed) = 3

\* C2: a fatal condition ends the run with exit code 1 and nothing is
\* invoked after it: with an unknown platform no stage and no command at
\* all; after a failed install_dependencies nothing else; after a failed
\* build_notcurses no verification; and no stage is invoked twice.
C2_FatalStops ==
    /\ (pc \notin {"main"} /\ platform_name = "unknown") =>
          /\ pc = "done" /\ exit_code = 1
          /\ stages = <<>> /\ log = <<>>
    /\ ("install_dependencies" \in Range(stages) /\ ~depsResult.success) =>
          /\ pc = "done" /\ exit_code = 1
          /\ stages = <<"install_dependencies">>
    /\ (BuildReturned /\ ~buildResult.success) =>
          /\ pc \in {"b_ret", "done"}
          /\ pc = "done" => exit_code = 1
          /\ "verify" \notin Range(stages)
          /\ stages[Len(stages)] = "build_notcurses"
    /\ Cardinality(Range(stages)) = Len(stages)
    /\ exit_code = 0 =>
          /\ "install_dependencies" \in Range(stages) => depsResult.success
          /\ "build_notcurses" \in Range(stages) => buildResult.success

\* The spec's end-to-end scenario: no flags, ubuntu/apt, dependencies
\* installed, Compile fails, exit 1.
C2_Witness ==
    /\ pc = "done" /\ exit_code = 1
    /\ ~skip_deps /\ ~skip_build /\ test
    /\ platform_name = "ubuntu"
    /\ depsResult.success
    /\ stages = <<"install_dependencies", "build_notcurses">>
    /\ buildResult.message = <<"Failed to build notcurses: ">> \o ErrText(1)

\* The message build_notcurses returns when step k fails.
FailureText(k) ==
    CASE k = "clone"     -> "Failed to clone notcurses: "
      [] k = "pin"       -> "Failed to checkout v3.0.11: "
      [] k = "configure" -> "Failed to configure build: "
      [] k = "compile"   -> "Failed to build notcurses: "
      [] k = "install"   -> "Failed to install notcurses: "
      [] OTHER           -> "?"

\* C3: the build steps run in the order Clone, Pin, Configure, Compile,
\* Install, Refresh; a step among Clone..Install that failed is the last
\* step run; and then build_notcurses returns failure with the message of
\* that step followed by that step's standard-error text.
C3_ShortCircuit ==
    LET b == BuildLog
        n == Len(b)
    IN  /\ n <= Len(StepOrder)
        /\ \A i \in 1..n : b[i].cmd.name = StepOrder[i]
        /\ \A i \in 1..n :
              (~b[i].success /\ b[i].cmd.name # "refresh") => i = n
        /\ (n > 0 /\ ~b[n].success /\ b[n].cmd.name # "refresh") =>
              /\ pc \in {"b_ret", "done"}
              /\ buildResult.success = FALSE
              /\ buildResult.message =
                    <<FailureText(b[n].cmd.name)>> \o b[n].stderr
        /\ (BuildReturned /\ ~buildResult.success) =>
              /\ n > 0
              /\ ~b[n].success
              /\ b[n].cmd.name # "refresh"

\* Clone fails with the longest error text: nothing else ran, the message
\* names clone.
C3_Witness ==
    /\ pc = "b_ret"
    /\ Len(BuildLog) = 1
    /\ BuildLog[1].cmd.name = "clone"
    /\ BuildLog[1].stderr = ErrText(MaxErr)
    /\ buildResult = [success |-> FALSE,
                      message |-> <<"Failed to clone notcurses: ">> \o ErrText(MaxErr)]

\* C4 (as claimed): when --test is set and the run reaches verification, it
\* ends with exit code 0 only if the version the query reported is the
\* pinned one, and with exit code 1 if the query failed or reported another.
C4_VerifyMatchesPinned ==
    (pc = "done" /\ "verify" \in Range(stages)) =>
       LET q == log[Len(log)]
       IN  /\ exit_code = 0 => (q.success /\ Strip(q.stdout) = Pinned)
           /\ (~q.success \/ Strip(q.stdout) # Pinned) => exit_code = 1

\* C5: when the first version query succeeds and reports the pinned
\* version, (a) without --test the run ends at once with exit code 0 and no
\* stage invoked, whatever --skip-deps and --skip-build are, and (b) with
\* --skip-deps --skip-build --test neither install_dependencies nor
\* build_notcurses is invoked and the run ends with exit code 0 after
\* printing the success line of the verification.
C5_AlreadyInstalled ==
    (pc \notin {"unit", "unit_deps", "unit_run"} /\ Len(log) >= 1
        /\ log[1].success /\ Strip(log[1].stdout) = Pinned) =>
       /\ platform_name # "unknown"
       /\ ~test =>
             /\ pc = "done" /\ exit_code = 0
             /\ stages = <<>>
             /\ Len(log) = 1
       /\ (test /\ skip_deps /\ skip_build) =>
             /\ "install_dependencies" \notin Range(stages)
             /\ "build_notcurses" \notin Range(stages)
             /\ pc = "done" =>
                   /\ exit_code = 0
                   /\ (<<"SUCCESS: notcurses ">> \o Pinned \o <<" detected">>)
                         \in Range(printed)

\* --skip-deps --skip-build --test with 3.0.11 installed: verified, exit 0.
C5_Witness ==
    /\ pc = "done" /\ exit_code = 0
    /\ test /\ skip_deps /\ skip_build
    /\ Len(log) = 2
    /\ Strip(log[1].stdout) = Pinned
    /\ stages = <<"verify">>

\* C6 (as claimed): run_command never lets an exception out, and reports
\* success=false whenever the process ended non-zero or could not be run.
C6_NeverRaises ==
    pc = "unit_run" =>
       LET r == log[Len(log)]
       IN  /\ ~raised
           /\ r.returncode # 0 => ~r.success

\* C7: the workspace exists at every build step and at no other position
\* of the run: it is gone once build_notcurses has returned, by success or
\* by a failure of any step, and it is created once per build call.
C7_WorkspaceScoped ==
    pc \notin {"unit", "unit_deps", "unit_run"} =>
       /\ pc \in BuildPcs => "temp_dir" \in fs
       /\ pc \notin BuildPcs => fs \cap Workspace = {}
       /\ \A i \in 1..Len(log) :
             IsBuildEntry(log[i]) /\ log[i].cwd # None =>
                 log[i].cwd \in Workspace /\ ~log[i].raised
       /\ created = IF "build_notcurses" \in Range(stages) /\ pc # "b_stage"
                    THEN 1 ELSE 0

\* Install failed after the whole workspace was populated; build_notcurses
\* has returned and nothing of the workspace is left.
C7_Witness ==
    /\ pc = "b_ret"
    /\ ~buildResult.success
    /\ Len(BuildLog) = 5
    /\ created = 1
    /\ fs = {}

\* C8 (as claimed): an unrecognized platform name gives "Unsupported
\* platform", an unrecognized package manager name gives "Unsupported
\* package manager", both with success=false and no command run.
C8_UnsupportedAsClaimed ==
    pc = "unit_deps" =>
       /\ platform_name \notin DepsKeys =>
             /\ ~depsResult.success
             /\ depsResult.message[1] = "Unsupported platform: "
             /\ log = <<>>
       /\ package_manager \notin CommandKeys =>
             /\ ~depsResult.success
             /\ depsResult.message[1] = "Unsupported package manager: "
             /\ log = <<>>

\* C8 (amended): an unrecognized platform name gives "Unsupported platform:
\* <name>"; an unrecognized package manager name gives "Unsupported package
\* manager: <name>" when the platform name is recognized; in both cases
\* success=false and no command is run.
C8_Unsupported ==
    pc = "unit_deps" =>
       /\ platform_name \notin DepsKeys =>
             /\ depsResult = [success |-> FALSE,
                              message |-> <<"Unsupported platform: ", platform_name>>]
             /\ log = <<>>
       /\ (platform_name \in DepsKeys /\ package_manager \notin CommandKeys) =>
             /\ depsResult = [success |-> FALSE,
                              message |-> <<"Unsupported package manager: ",
                                            package_manager>>]
             /\ log = <<>>
       /\ (platform_name \in DepsKeys /\ package_manager \in CommandKeys) =>
             Len(log) = 1

\* A recognized platform with an unrecognized manager.
C8_Witness ==
    /\ pc = "unit_deps"
    /\ platform_name = "ubuntu"
    /\ package_manager = "vcpkg"
    /\ depsResult.message = <<"Unsupported package manager: ", "vcpkg">>
    /\ log = <<>>

\* C9 (as claimed): build_notcurses returns success only when every step
\* it ran succeeded, Refresh included; Refresh runs only on Linux and only
\* after Install succeeded.
C9_SuccessMeansAllSteps ==
    /\ \A i \in 1..Len(BuildLog) :
          BuildLog[i].cmd.name = "refresh" =>
             /\ Lower(system) = "linux"
             /\ i > 1 /\ BuildLog[i - 1].cmd.name = "install"
             /\ BuildLog[i - 1].success
    /\ (BuildReturned /\ buildResult.success) =>
          \A i \in 1..Len(BuildLog) : BuildLog[i].success

\* C10 (as claimed): a pair detect_platform returned with a manager other
\* than unknown is accepted by install_dependencies: the package-manager
\* command is run, and neither "Unsupported" message is returned.
C10_DetectedPairAccepted ==
    ("install_dependencies" \in Range(stages) /\ package_manager # "unknown") =>
       /\ depsResult.message[1] \notin {"Unsupported platform: ",
                                        "Unsupported package manager: "}
       /\ \E i \in 1..Len(log) : log[i].cmd.name = "deps"

====
